---- MODULE Spec2Model ----
(***************************************************************************)
(* A model of the persistent Patricia trie of src/src/trie.rs             *)
(* (PatriciaTrie<T>: empty, bind, lookup).                                 *)
(*                                                                         *)
(* A String is a sequence of characters; every character has a UTF-8       *)
(* width in bytes.  The code measures the common prefix in characters      *)
(* (chars().count()) and the lengths and slice positions in bytes          *)
(* (len(), k[i..]); both units are modelled.  Slicing at a byte index that *)
(* is not a character boundary panics, as in Rust.                         *)
(*                                                                         *)
(* Nodes live in a heap (id -> node); a children map holds ids, which      *)
(* stand for the Rc pointers of the code, so that sharing is observable.   *)
(***************************************************************************)
EXTENDS Integers, Sequences, FiniteSets, TLC

\* ---------------------------------------------------------------- bounds
MaxLen == 2
MaxBinds == 3
MaxPair == 2

\* ------------------------------------------------------------ characters
\* "a" is a one-byte character; "E" stands for a two-byte one (U+00E9).
Alphabet == {"a", "E"}

len_utf8(c) == IF c = "E" THEN 2 ELSE 1

RECURSIVE StrOfLen(_)
StrOfLen(n) ==
    IF n = 0 THEN {<<>>}
    ELSE {Append(s, c) : s \in StrOfLen(n - 1), c \in Alphabet}

Keys == UNION {StrOfLen(n) : n \in 0..MaxLen}

\* s.len(): the length of a String in bytes
RECURSIVE len(_)
len(s) == IF s = <<>> THEN 0 ELSE len_utf8(Head(s)) + len(Tail(s))

\* s.is_char_boundary(i), the test every slice s[i..] / s[..i] makes
is_char_boundary(s, i) ==
    \E n \in 0..Len(s) : len(SubSeq(s, 1, n)) = i

\* the number of characters that end at or before byte index i
CharsBefore(s, i) ==
    CHOOSE n \in 0..Len(s) : len(SubSeq(s, 1, n)) = i

\* a slice s[i..] that cuts nothing off
slice_from_whole(s, i) == s

\* s[i..] for a byte index i that is a character boundary
slice_from(s, i) == SubSeq(s, CharsBefore(s, i) + 1, Len(s))

\* s[..i] for a byte index i that is a character boundary
slice_to(s, i) == SubSeq(s, 1, CharsBefore(s, i))

\* a starts_with that compares the lengths only
starts_with_len(k, key) == Len(key) <= Len(k)

\* k.starts_with(key)
starts_with(k, key) ==
    /\ Len(key) <= Len(k)
    /\ SubSeq(k, 1, Len(key)) = key

\* s1.chars().zip(s2.chars()).take_while(|t| t.0 == t.1).count()
RECURSIVE longest_common_prefix(_, _)
longest_common_prefix(s1, s2) ==
    IF s1 = <<>> \/ s2 = <<>> THEN 0
    ELSE IF Head(s1) = Head(s2)
         THEN 1 + longest_common_prefix(Tail(s1), Tail(s2))
         ELSE 0

\* ------------------------------------------------------------- the trie
\* Option<T>: None and Some(v)
None == <<>>
Some(v) == <<v>>

\* s.chars().nth(0), an Option<char>
chars_nth0(s) == IF s = <<>> THEN None ELSE Some(Head(s))

\* first_char_unwrap(s) where chars().nth(0) is Some; on None the unwrap
\* panics, which every caller below tests first
first_char_unwrap(s) == chars_nth0(s)[1]

\* the variant Tip; a Node is an id of the heap
Tip == 0

\* Node { key, value, children }
Node(key, value, children) ==
    [key |-> key, value |-> value, children |-> children]

\* hashmap![] : the empty children map
hashmap == [c \in {} |-> Tip]

\* map.insert(c, n) on a HashMap: an entry under c is replaced
insert(map, c, n) == (c :> n) @@ map

\* the panics of the code
PanicUndefined == "undefined"
PanicEmptyTree == "lookup on empty tree."
PanicNoElement == "element does not exist"
PanicUnwrap == "called Option::unwrap() on a None value"
PanicSlice == "byte index is not a char boundary"

\* results of bind: a panic, or the heap after the call and the new node
Panicked(h, msg) == [panic |-> msg, heap |-> h, node |-> Tip]

NewId(h) ==
    CHOOSE i \in 1..(Cardinality(DOMAIN h) + 1) :
        /\ i \notin DOMAIN h
        /\ \A j \in 1..(i - 1) : j \in DOMAIN h

\* a Node value is built and placed in memory (Rc::new for a child, the
\* returned value for the root)
Rc_new(h, n) ==
    [panic |-> "", heap |-> (NewId(h) :> n) @@ h, node |-> NewId(h)]

\* a children.clone() that copies the children instead of sharing them
RECURSIVE clone_copy(_, _, _)
clone_copy(h, children, todo) ==
    IF todo = {} THEN [heap |-> h, map |-> children]
    ELSE LET c == CHOOSE x \in todo : TRUE
             copy == Rc_new(h, h[children[c]])
         IN  clone_copy(copy.heap, insert(children, c, copy.node), todo \ {c})

\* an update that copies the children of the node
bind_update_copy(h, n, k, v) ==
    LET r == clone_copy(h, n.children, DOMAIN n.children)
    IN  Rc_new(r.heap, Node(k, Some(v), r.map))

\* case "update an already existing key"
bind_update(h, n, k, v) ==
    Rc_new(h, Node(k, Some(v), n.children))

\* a containment split that leaves the new value on the old node and the old
\* value on the new one
bind_contained_swapped(h, n, k, v, i) ==
    IF ~is_char_boundary(n.key, i) THEN Panicked(h, PanicSlice)
    ELSE LET k1 == slice_from(n.key, i) IN
         IF chars_nth0(k1) = None THEN Panicked(h, PanicUnwrap)
         ELSE LET old == Rc_new(h, Node(k1, Some(v), n.children))
                  children == insert(hashmap, first_char_unwrap(k1), old.node)
              IN  Rc_new(old.heap, Node(k, n.value, children))

\* case "the new key is contained in the existing key"
bind_contained(h, n, k, v, i) ==
    IF ~is_char_boundary(n.key, i) THEN Panicked(h, PanicSlice)
    ELSE LET k1 == slice_from(n.key, i) IN
         IF chars_nth0(k1) = None THEN Panicked(h, PanicUnwrap)
         ELSE LET old == Rc_new(h, Node(k1, n.value, n.children))
                  children == insert(hashmap, first_char_unwrap(k1), old.node)
              IN  Rc_new(old.heap, Node(k, Some(v), children))

\* a split that files the new leaf under the first character of the whole key
bind_split_first_of_k(h, n, k, v, i) ==
    IF ~is_char_boundary(k, i) \/ ~is_char_boundary(n.key, i)
    THEN Panicked(h, PanicSlice)
    ELSE LET common == slice_to(k, i)
             k1 == slice_from(n.key, i)
             k2 == slice_from(k, i)
         IN  IF chars_nth0(k1) = None \/ chars_nth0(k2) = None
             THEN Panicked(h, PanicUnwrap)
             ELSE LET old == Rc_new(h, Node(k1, n.value, n.children))
                      new == Rc_new(old.heap, Node(k2, Some(v), hashmap))
                      children ==
                          insert(insert(hashmap, first_char_unwrap(k1), old.node),
                                 first_char_unwrap(k), new.node)
                  IN  Rc_new(new.heap, Node(common, None, children))

\* a split whose branch node takes the new value
bind_split_valued(h, n, k, v, i) ==
    IF ~is_char_boundary(k, i) \/ ~is_char_boundary(n.key, i)
    THEN Panicked(h, PanicSlice)
    ELSE LET common == slice_to(k, i)
             k1 == slice_from(n.key, i)
             k2 == slice_from(k, i)
         IN  IF chars_nth0(k1) = None \/ chars_nth0(k2) = None
             THEN Panicked(h, PanicUnwrap)
             ELSE LET old == Rc_new(h, Node(k1, n.value, n.children))
                      new == Rc_new(old.heap, Node(k2, Some(v), hashmap))
                      children ==
                          insert(insert(hashmap, first_char_unwrap(k1), old.node),
                                 first_char_unwrap(k2), new.node)
                  IN  Rc_new(new.heap, Node(common, Some(v), children))

\* case "split at longest common prefix"
bind_split(h, n, k, v, i) ==
    IF ~is_char_boundary(k, i) \/ ~is_char_boundary(n.key, i)
    THEN Panicked(h, PanicSlice)
    ELSE LET common == slice_to(k, i)
             k1 == slice_from(n.key, i)
             k2 == slice_from(k, i)
         IN  IF chars_nth0(k1) = None \/ chars_nth0(k2) = None
             THEN Panicked(h, PanicUnwrap)
             ELSE LET old == Rc_new(h, Node(k1, n.value, n.children))
                      new == Rc_new(old.heap, Node(k2, Some(v), hashmap))
                      children ==
                          insert(insert(hashmap, first_char_unwrap(k1), old.node),
                                 first_char_unwrap(k2), new.node)
                  IN  Rc_new(new.heap, Node(common, None, children))

RECURSIVE bind(_, _, _, _)

add_children(h, t, k, v) ==
    IF t = Tip THEN Panicked(h, PanicUndefined)
    ELSE IF chars_nth0(k) = None THEN Panicked(h, PanicUnwrap)
    ELSE LET children == h[t].children
             c == first_char_unwrap(k)
         IN  IF c \in DOMAIN children
             THEN bind(h, children[c], k, v)
             ELSE Rc_new(h, Node(k, Some(v), hashmap))

bind(h, t, k, v) ==
    IF t = Tip THEN Rc_new(h, Node(k, Some(v), hashmap))
    ELSE LET n == h[t]
             i == longest_common_prefix(k, n.key)
         IN  IF i = len(k) /\ i = len(n.key) THEN bind_update(h, n, k, v)
             \* the existing key is contained in the new key
             ELSE IF i = len(n.key) THEN
                 IF ~is_char_boundary(k, i) THEN Panicked(h, PanicSlice)
                 ELSE LET k1 == slice_from(k, i) IN
                      IF chars_nth0(k1) = None THEN Panicked(h, PanicUnwrap)
                      ELSE LET r == add_children(h, t, k1, v) IN
                           IF r.panic # "" THEN r
                           ELSE Rc_new(r.heap,
                                       Node(n.key, n.value,
                                            insert(n.children,
                                                   first_char_unwrap(k1),
                                                   r.node)))
             ELSE IF i = len(k) THEN bind_contained(h, n, k, v, i)
             ELSE bind_split(h, n, k, v, i)

\* results of lookup: the value, or a panic
Found(v) == [kind |-> "value", value |-> Some(v), msg |-> ""]
Failed(msg) == [kind |-> "panic", value |-> None, msg |-> msg]

RECURSIVE lookup(_, _, _)
lookup(h, t, k) ==
    IF t = Tip THEN Failed(PanicEmptyTree)
    ELSE LET n == h[t] IN
         IF starts_with(k, n.key) THEN
             IF ~is_char_boundary(k, len(n.key)) THEN Failed(PanicSlice)
             ELSE LET k2 == slice_from(k, len(n.key)) IN
                  IF k2 = <<>> THEN
                      IF n.value # None THEN Found(n.value[1])
                      ELSE Failed(PanicNoElement)
                  ELSE IF first_char_unwrap(k2) \in DOMAIN n.children
                       THEN lookup(h, n.children[first_char_unwrap(k2)], k2)
                       ELSE Failed(PanicNoElement)
         ELSE Failed(PanicNoElement)

\* the nested calls of bind for t.bind(k, v): the receiver and the key of each
\* call, the outermost first
RECURSIVE bind_calls(_, _, _)
bind_calls(h, t, k) ==
    IF t = Tip THEN <<[node |-> t, k |-> k]>>
    ELSE LET n == h[t]
             i == longest_common_prefix(k, n.key)
         IN  IF i = len(k) /\ i = len(n.key) THEN <<[node |-> t, k |-> k]>>
             ELSE IF /\ i = len(n.key)
                     /\ is_char_boundary(k, i)
                     /\ chars_nth0(slice_from(k, i)) # None
                     /\ first_char_unwrap(slice_from(k, i)) \in DOMAIN n.children
                  THEN <<[node |-> t, k |-> k]>> \o
                       bind_calls(h,
                                  n.children[first_char_unwrap(slice_from(k, i))],
                                  slice_from(k, i))
                  ELSE <<[node |-> t, k |-> k]>>

\* the nested calls of lookup for t.lookup(k)
RECURSIVE lookup_calls(_, _, _)
lookup_calls(h, t, k) ==
    IF t = Tip THEN <<[node |-> t, k |-> k]>>
    ELSE LET n == h[t] IN
         IF /\ starts_with(k, n.key)
            /\ is_char_boundary(k, len(n.key))
            /\ slice_from(k, len(n.key)) # <<>>
            /\ first_char_unwrap(slice_from(k, len(n.key))) \in DOMAIN n.children
         THEN <<[node |-> t, k |-> k]>> \o
              lookup_calls(h,
                           n.children[first_char_unwrap(slice_from(k, len(n.key)))],
                           slice_from(k, len(n.key)))
         ELSE <<[node |-> t, k |-> k]>>

\* ---------------------------------------------------------------- memory
\* the nodes a trie owns or shares: what its Rc pointers keep alive
RECURSIVE Reach(_, _)
Reach(h, t) ==
    IF t = Tip THEN {}
    ELSE {t} \cup UNION {Reach(h, h[t].children[c]) : c \in DOMAIN h[t].children}

\* nodes no trie refers to any more are freed
Drop(h, live) == [i \in (DOMAIN h \cap live) |-> h[i]]

\* ----------------------------------------------------------------- state
VARIABLES
    heap,    \* id -> Node: the nodes alive
    t1,      \* the receiver of the last bind (Tip before the first)
    t,       \* the trie the last bind returned (Tip: the result of empty())
    bound1,  \* key -> value of the binds that built t1
    bound,   \* key -> value of the binds that built t, the most recent wins
    nbinds,  \* the number of binds that returned
    pc,      \* "ready", or "panicked" once a call has panicked
    op,      \* the last call
    out      \* its outcome

vars == <<heap, t1, t, bound1, bound, nbinds, pc, op, out>>

Returned == [kind |-> "trie", value |-> None, msg |-> ""]

Init ==
    /\ heap = [i \in {} |-> Node(<<>>, None, hashmap)]
    /\ t1 = Tip
    /\ t = Tip
    /\ bound1 = [k \in {} |-> 0]
    /\ bound = [k \in {} |-> 0]
    /\ nbinds = 0
    /\ pc = "ready"
    /\ op = [name |-> "empty", k |-> <<>>]
    /\ out = Returned

\* t2 = t.bind(k, v): t becomes the receiver t1 and t2 the current trie; the
\* trie before the receiver is dropped.  The values bound are 0, 1, 2, ... as
\* in the test.  A panic ends the program.
Call_bind(k) ==
    /\ pc = "ready"
    /\ LET v == nbinds
           h0 == Drop(heap, Reach(heap, t))
           r == bind(h0, t, k, v)
       IN  /\ op' = [name |-> "bind", k |-> k]
           /\ t1' = t
           /\ bound1' = bound
           /\ IF r.panic # ""
              THEN /\ pc' = "panicked"
                   /\ out' = Failed(r.panic)
                   /\ heap' = h0
                   /\ UNCHANGED <<t, bound, nbinds>>
              ELSE /\ heap' = Drop(r.heap, Reach(r.heap, t) \cup Reach(r.heap, r.node))
                   /\ t' = r.node
                   /\ bound' = (k :> v) @@ bound
                   /\ nbinds' = nbinds + 1
                   /\ out' = Returned
                   /\ UNCHANGED pc

\* a bind of a key of up to MaxLen characters, MaxBinds binds at most
DoBind(k) ==
    /\ nbinds < MaxBinds
    /\ Call_bind(k)

\* t.lookup(k): a panic ends the program
DoLookup(k) ==
    /\ pc = "ready"
    /\ LET r == lookup(heap, t, k)
       IN  /\ op' = [name |-> "lookup", k |-> k]
           /\ out' = r
           /\ pc' = IF r.kind = "panic" THEN "panicked" ELSE "ready"
    /\ UNCHANGED <<heap, t1, t, bound1, bound, nbinds>>

Next ==
    \/ \E k \in Keys : DoBind(k)
    \/ \E k \in Keys : DoLookup(k)

Spec == Init /\ [][Next]_vars

\* the same program run with keys one character longer and MaxPair binds
LongKeys == UNION {StrOfLen(n) : n \in 0..(MaxLen + 1)}

DoBindLong(k) ==
    /\ nbinds < MaxPair
    /\ Call_bind(k)

NextLong ==
    \/ \E k \in LongKeys : DoBindLong(k)
    \/ \E k \in LongKeys : DoLookup(k)

SpecLong == Init /\ [][NextLong]_vars

\* ---------------------------------------------------------------- claims
\* a key of one-byte characters only
Ascii(k) == \A j \in 1..Len(k) : len_utf8(k[j]) = 1

\* the not-found outcome of lookup
NotFound(r) == r.kind = "panic" /\ r.msg \in {PanicEmptyTree, PanicNoElement}

\* two lookups end alike: the same value, or not found in both
SameOutcome(r1, r2) ==
    \/ r1.kind = "value" /\ r2.kind = "value" /\ r1.value = r2.value
    \/ NotFound(r1) /\ NotFound(r2)

\* C1: after any sequence of binds on the empty trie every bind has returned
\* and lookup of every bound key returns the value of its most recent bind.
C1_RoundTrip ==
    /\ ~(op.name = "bind" /\ pc = "panicked")
    /\ \A k \in DOMAIN bound : lookup(heap, t, k) = Found(bound[k])
    /\ (op.name = "lookup" /\ op.k \in DOMAIN bound) => out = Found(bound[op.k])

\* C2: on every trie reachable by binds, lookup of a key that was never bound
\* ends in the not-found outcome and returns no value.
C2_NotFound ==
    /\ \A k \in Keys \ DOMAIN bound : NotFound(lookup(heap, t, k))
    /\ (op.name = "lookup" /\ op.k \notin DOMAIN bound) => NotFound(out)

\* a lookup has ended not found on a key that stops exactly at a value-less
\* branch node, a strict prefix of two stored keys
C2_Witness ==
    /\ op.name = "lookup"
    /\ op.k \notin DOMAIN bound
    /\ op.k # <<>>
    /\ t # Tip
    /\ heap[t].key = op.k
    /\ heap[t].value = None
    /\ Cardinality(DOMAIN heap[t].children) = 2
    /\ out = Failed(PanicNoElement)

\* C3 as stated: no lookup ends in a panic of the program.
C3_NoPanic == ~(op.name = "lookup" /\ pc = "panicked")

\* C3 amended: a lookup either returns a value and the program goes on, or it
\* ends in a panic that tells not-found: "lookup on empty tree." on the empty
\* trie, "element does not exist" on any other; it panics in no other way.
C3_PanicIsNotFound ==
    op.name = "lookup" =>
        \/ out.kind = "value" /\ out.value # None /\ pc = "ready"
        \/ /\ out.kind = "panic"
           /\ pc = "panicked"
           /\ out.msg = IF t = Tip THEN PanicEmptyTree ELSE PanicNoElement

\* a lookup has panicked on a trie that holds keys, with a key that is longer
\* than the fragment of the root and does not start with it
C3_Witness ==
    /\ op.name = "lookup"
    /\ pc = "panicked"
    /\ t # Tip
    /\ Len(op.k) > Len(heap[t].key)
    /\ ~starts_with(op.k, heap[t].key)
    /\ out = Failed(PanicNoElement)

\* the shape of a trie: its nodes, their fragments, which of them hold a
\* value, and their children keys (<<>> for Tip)
RECURSIVE Shape(_, _)
Shape(h, n) ==
    IF n = Tip THEN <<>>
    ELSE <<[key |-> h[n].key,
            has |-> h[n].value # None,
            children |-> [c \in DOMAIN h[n].children |->
                              Shape(h, h[n].children[c])]]>>

\* C4: bind(k, v2) on a trie in which k is already bound returns, makes
\* lookup(k) return v2, and yields a trie of the same shape in which every
\* other key has the outcome it had.
C4_Overwrite ==
    (op.name = "bind" /\ op.k \in DOMAIN bound1) =>
        /\ pc = "ready"
        /\ lookup(heap, t, op.k) = Found(bound[op.k])
        /\ Shape(heap, t) = Shape(heap, t1)
        /\ \A k \in Keys \ {op.k} : lookup(heap, t, k) = lookup(heap, t1, k)

\* C5: t2 = t.bind(k, v) returns, t2.lookup(k) = v, and every other key has
\* in t2 the outcome it has in t.
C5_PrefixIndependence ==
    op.name = "bind" =>
        /\ pc = "ready"
        /\ lookup(heap, t, op.k) = Found(bound[op.k])
        /\ \A k \in Keys \ {op.k} :
               SameOutcome(lookup(heap, t, k), lookup(heap, t1, k))

\* the character count and the byte count of the common prefix of k and key
\* select the same case and the same split position
UnitsAgree(k, key) ==
    LET i == longest_common_prefix(k, key)
    IN  /\ (i = len(k)) = (i = Len(k))
        /\ (i = len(key)) = (i = Len(key))
        /\ is_char_boundary(k, i) /\ is_char_boundary(key, i)
        /\ slice_to(k, i) = SubSeq(k, 1, i)
        /\ slice_from(k, i) = SubSeq(k, i + 1, Len(k))
        /\ slice_from(key, i) = SubSeq(key, i + 1, Len(key))

\* C7: when keys hold characters of more than one byte, bind measures the
\* common prefix, the lengths and the split positions in one unit, returns,
\* and the round trip holds.
C7_PerCharacter ==
    (op.name = "bind" /\ \E k \in DOMAIN bound1 \cup {op.k} : ~Ascii(k)) =>
        /\ t1 # Tip => UnitsAgree(op.k, heap[t1].key)
        /\ pc = "ready"
        /\ \A k \in DOMAIN bound : lookup(heap, t, k) = Found(bound[k])

\* the children of a node
Children(h, n) == {h[n].children[c] : c \in DOMAIN h[n].children}

\* C6: bind("", v) returns wherever it comes in a sequence of binds, lookup("")
\* then returns the value of the most recent bind of "", the bind of "" leaves
\* the outcome of every other key as it was, and no child node has an empty
\* fragment (a node with an empty fragment is a root).
C6_EmptyKey ==
    /\ ~(op.name = "bind" /\ op.k = <<>> /\ pc = "panicked")
    /\ <<>> \in DOMAIN bound => lookup(heap, t, <<>>) = Found(bound[<<>>])
    /\ (op.name = "lookup" /\ op.k = <<>> /\ <<>> \in DOMAIN bound) =>
           out = Found(bound[<<>>])
    /\ (op.name = "bind" /\ op.k = <<>> /\ pc = "ready") =>
           \A k \in Keys \ {<<>>} :
               SameOutcome(lookup(heap, t, k), lookup(heap, t1, k))
    /\ \A n \in DOMAIN heap :
           /\ heap[n].key = <<>> => n \in {t1, t}
           /\ \A m \in Children(heap, n) : heap[m].key # <<>>

\* "" was bound second, onto a trie that held a key, another key was bound
\* after it, and lookup("") has returned the value bound to ""
C6_Witness ==
    /\ op.name = "lookup"
    /\ op.k = <<>>
    /\ nbinds = 3
    /\ <<>> \in DOMAIN bound
    /\ bound[<<>>] = 1
    /\ out = Found(1)
    /\ heap[t].key = <<>>
    /\ Cardinality(DOMAIN heap[t].children) = 2

\* C9: for every node alive and every entry c -> child of its children map,
\* the child is a Node with a non-empty fragment that starts with c; no two
\* children of a node have fragments with the same first character.
C9_Children ==
    \A n \in DOMAIN heap :
        /\ \A c \in DOMAIN heap[n].children :
               LET m == heap[n].children[c]
               IN  /\ m # Tip
                   /\ m \in DOMAIN heap
                   /\ heap[m].key # <<>>
                   /\ Head(heap[m].key) = c
        /\ \A m1, m2 \in Children(heap, n) :
               m1 # m2 => Head(heap[m1].key) # Head(heap[m2].key)

\* a node below the root has two children, one of them with children of its
\* own: binds have gone through add_children and through a split
C9_Witness ==
    /\ pc = "ready"
    /\ \E n \in Reach(heap, t) \ {t} :
           Cardinality(DOMAIN heap[n].children) = 2
    /\ heap[t].children # hashmap

\* C10 as stated: a node with an empty fragment is the root and holds no value.
C10_EmptyFragment ==
    \A n \in DOMAIN heap :
        heap[n].key = <<>> => (n \in {t1, t} /\ heap[n].value = None)

\* the root r of a trie built by the binds b has an empty fragment only as a
\* branch point of two or more children while "" is unbound, or as the node of
\* the bound key ""
EmptyRoot(r, b) ==
    (r # Tip /\ heap[r].key = <<>>) =>
        \/ /\ <<>> \notin DOMAIN b
           /\ heap[r].value = None
           /\ Cardinality(DOMAIN heap[r].children) >= 2
        \/ /\ <<>> \in DOMAIN b
           /\ heap[r].value = Some(b[<<>>])

\* C10 amended: a node's fragment is empty only if that node is the root; a
\* root with an empty fragment is a pure branch point (value None, two or more
\* children) unless the empty key was bound, and then it holds that value.
C10_EmptyFragmentRoot ==
    /\ \A n \in DOMAIN heap : heap[n].key = <<>> => n \in {t1, t}
    /\ EmptyRoot(t, bound)
    /\ EmptyRoot(t1, bound1)

\* the root has an empty fragment, the value bound to "" and a child
C10_Witness ==
    /\ op.name = "bind"
    /\ pc = "ready"
    /\ heap[t].key = <<>>
    /\ heap[t].value # None
    /\ heap[t].children # hashmap
    /\ t1 # Tip
    /\ heap[t1].key = <<>>
    /\ heap[t1].value = None

\* the nodes on the path that key k follows from node n: n, then the child
\* under the first character of what is left of k after the fragment of n
RECURSIVE Path(_, _, _)
Path(h, n, k) ==
    IF n = Tip THEN {}
    ELSE LET key == h[n].key
             rest == SubSeq(k, Len(key) + 1, Len(k))
         IN  IF starts_with(k, key) /\ rest # <<>> /\ Head(rest) \in DOMAIN h[n].children
             THEN {n} \cup Path(h, h[n].children[Head(rest)], rest)
             ELSE {n}

\* C8: t2 = t.bind(k, v) leaves every node of t as it was and every lookup on
\* t with the outcome it had; the nodes of t2 that are not nodes of t lie on
\* the path of k in t2, but for at most one child of a path node (the old node
\* of a split, with its fragment cut), and are at most two more than the nodes
\* on the path of k in t; every other node of t2, so every subtree off the
\* path, is a node of t itself, held by the same reference.
C8_Persistence ==
    [][(op'.name = "bind" /\ pc' = "ready") =>
        LET old == Reach(heap, t)
            new == Reach(heap', t') \ old
            path == Path(heap', t', op'.k)
        IN  /\ t1' = t
            /\ \A n \in old : n \in DOMAIN heap' /\ heap'[n] = heap[n]
            /\ \A k \in Keys : lookup(heap', t1', k) = lookup(heap, t, k)
            /\ path \subseteq new
            /\ Cardinality(new \ path) <= 1
            /\ \A n \in new \ path : \E p \in path : n \in Children(heap', p)
            /\ Cardinality(new) <= Cardinality(Path(heap, t, op'.k)) + 2
            /\ \A p \in new : \A m \in Children(heap', p) :
                   m \notin new => (m \in old /\ heap'[m] = heap[m])
    ]_vars

\* a bind has gone two nodes deep into a trie of three nodes: the new trie
\* has new nodes on the path and shares the one subtree off the path with t1
C8_Witness ==
    /\ op.name = "bind"
    /\ pc = "ready"
    /\ Cardinality(Reach(heap, t1)) = 3
    /\ Cardinality(Path(heap, t, op.k)) >= 2
    /\ Reach(heap, t) \cap Reach(heap, t1) # {}
    /\ Reach(heap, t) \ Reach(heap, t1) # {}

\* the nodes of the trie n paired with the concatenation of the fragments
\* on the path from the root to them, prefix being the path to n
RECURSIVE Paths(_, _, _)
Paths(h, n, prefix) ==
    IF n = Tip THEN {}
    ELSE LET p == prefix \o h[n].key
         IN  {<<n, p>>} \cup
             UNION {Paths(h, m, p) : m \in Children(h, n)}

\* in the trie r built by the binds b a node holds Some(v) exactly if its
\* path is a bound key, and v is then the value bound to it last
ValuesPlaced(r, b) ==
    \A e \in Paths(heap, r, <<>>) :
        /\ (heap[e[1]].value # None) = (e[2] \in DOMAIN b)
        /\ e[2] \in DOMAIN b => heap[e[1]].value = Some(b[e[2]])

\* C11: in every trie reachable by binds a node holds Some(v) if and only if
\* the concatenation of the fragments from the root to it is a bound key, and
\* v is the value of the most recent bind of that key; a node with value None
\* corresponds to no bound key.
C11_ValuePlacement ==
    /\ ValuesPlaced(t, bound)
    /\ ValuesPlaced(t1, bound1)

\* a key below a value-less branch node has been bound a second time and the
\* node on its path holds the value of that bind
C11_Witness ==
    /\ op.name = "bind"
    /\ pc = "ready"
    /\ op.k \in DOMAIN bound1
    /\ bound[op.k] = 2
    /\ heap[t].value = None
    /\ \E e \in Paths(heap, t, <<>>) :
           e[1] # t /\ e[2] = op.k /\ heap[e[1]].value = Some(2)

\* C12: on every trie reachable by binds and for every key, bind has no
\* failure path: it returns a Node (never Tip), add_children is not applied
\* to Tip, and the first character is not requested of an empty remainder.
C12_BindTotal ==
    op.name = "bind" =>
        /\ out.msg \notin {PanicUndefined, PanicUnwrap}
        /\ pc = "ready"
        /\ out = Returned
        /\ t # Tip
        /\ t \in DOMAIN heap

\* C13: in every trie reachable by binds every node whose value is None has
\* at least two children.
C13_BranchNode ==
    \A n \in DOMAIN heap :
        heap[n].value = None => Cardinality(DOMAIN heap[n].children) >= 2

\* a trie as a value: fragments, values and children maps of all its nodes
\* (<<>> for Tip)
RECURSIVE Tree(_, _)
Tree(h, n) ==
    IF n = Tip THEN <<>>
    ELSE <<[key |-> h[n].key,
            value |-> h[n].value,
            children |-> [c \in DOMAIN h[n].children |->
                              Tree(h, h[n].children[c])]]>>

\* the orders in which the keys of S can be bound
RECURSIVE Orders(_)
Orders(S) ==
    IF S = {} THEN {<<>>}
    ELSE UNION {{<<x>> \o s : s \in Orders(S \ {x})} : x \in S}

\* empty().bind(ks[1], b[ks[1]]).bind(ks[2], b[ks[2]]) ...
RECURSIVE Replay(_, _)
Replay(ks, b) ==
    IF ks = <<>> THEN [panic |-> "", heap |-> [i \in {} |-> 0], node |-> Tip]
    ELSE LET r == Replay(SubSeq(ks, 1, Len(ks) - 1), b)
             k == ks[Len(ks)]
         IN  IF r.panic # "" THEN r ELSE bind(r.heap, r.node, k, b[k])

\* C14: when the keys bound so far are pairwise distinct, binding the same
\* (key, value) pairs into the empty trie in any other order returns a trie
\* structurally equal to the one built (stated for SpecLong: two keys of up
\* to MaxLen + 1 characters).
C14_OrderIndependence ==
    (pc = "ready" /\ nbinds = Cardinality(DOMAIN bound)) =>
        \A ks \in Orders(DOMAIN bound) :
            LET r == Replay(ks, bound)
            IN  /\ r.panic = ""
                /\ Tree(r.heap, r.node) = Tree(heap, t)

\* the nested calls cs made for a key on the trie r: the key of every call
\* but the first is shorter than the key of the call before, unless that call
\* is the outermost one on a root with an empty fragment, which passes the
\* key on as it is; a key of n characters makes at most n + 1 calls
Descends(cs, r) ==
    /\ Len(cs) <= Len(cs[1].k) + 1
    /\ \A j \in 1..(Len(cs) - 1) :
           \/ Len(cs[j + 1].k) < Len(cs[j].k)
           \/ /\ j = 1
              /\ heap[r].key = <<>>
              /\ cs[2].k = cs[1].k

\* C15: the bind or lookup just carried out stepped into a child with a
\* strictly shorter remaining key each time, except that a root with an empty
\* fragment consumes nothing; for a key of n characters it made at most n + 1
\* nested calls.
C15_BoundedRecursion ==
    /\ op.name = "bind" => Descends(bind_calls(heap, t1, op.k), t1)
    /\ op.name = "lookup" => Descends(lookup_calls(heap, t, op.k), t)

\* a lookup of a key of two characters has returned after three nested calls,
\* the first on a root with an empty fragment, and the last bind, of a new
\* key, made two nested calls
C15_Witness ==
    /\ op.name = "lookup"
    /\ out.kind = "value"
    /\ Len(op.k) = 2
    /\ heap[t].key = <<>>
    /\ Len(lookup_calls(heap, t, op.k)) = 3
    /\ \E k \in DOMAIN bound \ DOMAIN bound1 :
           Len(bind_calls(heap, t1, k)) = 2

====
